---- MODULE Spec2Model ----
(***************************************************************************)
(* A model of RingArray (src/src/array/ring.rs), the ring buffer that      *)
(* stores its elements in a LazyArray (src/src/array/lazy.rs), run in      *)
(* lockstep with the bounded-deque Oracle of the property test.            *)
(***************************************************************************)
EXTENDS Integers, Sequences, FiniteSets, TLC

\* Bounds of the model.
MaxCap == 3      \* capacities 0..MaxCap
MaxBatch == 4    \* batches of 0..MaxBatch elements (longer than MaxCap)
MaxVal == 2      \* element values 1..MaxVal
MaxTotal == 5    \* elements appended over the life of one buffer
MaxLazyCap == 2  \* capacities 0..MaxLazyCap of a raw array driven on its own
MaxOver == 1     \* a raw-array call reaches at most MaxOver slots past the end
MaxOutstanding == 3  \* values created and not torn down, leaked ones included

\* A slot of MaybeUninit<T> that was never written.
Uninit == 0

\* The element type T (Copy).
T == 1..MaxVal

\* The batches a caller can pass as `elems`.
Batches == UNION {[1..n -> T] : n \in 0..MaxBatch}

VARIABLES
    array,      \* RingArray.array: slot index (0-based) -> T or Uninit
    len,        \* RingArray.len
    next,       \* RingArray.next
    oracle,     \* Oracle of the property test: [cap, deque]
    history,    \* every element passed to a completed copy_from_slice, in order
    elems,      \* argument of the most recent copy_from_slice
    writes,     \* slots written by the most recent copy_from_slice: <<slot, index in elems>>
    op,         \* the most recent operation
    again,      \* the most recent as_slices / iter followed another with no append in between
    ret,        \* the views (head, tail) held by the most recent as_slices / iter
    panicked    \* an operation panicked

\* The state of a LazyArray driven directly through its own operations.
VARIABLES
    lazy,        \* the LazyArray: slot index (0-based) -> T or Uninit (no live value)
    is_copy,     \* T is Copy (no teardown, copy_from_slice available)
    outstanding, \* values created by clone so far minus values torn down so far
    torn,        \* slots torn down by the most recent call, in order
    call,        \* the most recent call: [fn, index, n, panicked]
    disciplined, \* no write_from_slice hit a live slot, no overwrite / drop a slot without one
    ub           \* a teardown ran on a slot without a live value

ringvars == <<array, len, next, oracle, history, elems, writes, op, again, ret, panicked>>

lazyvars == <<lazy, is_copy, outstanding, torn, call, disciplined, ub>>

vars == <<array, len, next, oracle, history, elems, writes, op, again, ret, panicked,
          lazy, is_copy, outstanding, torn, call, disciplined, ub>>

----------------------------------------------------------------------------
\* Helpers standing for std operations.

Min(a, b) == IF a < b THEN a ELSE b

\* usize::saturating_sub
SaturatingSub(a, b) == IF a > b THEN a - b ELSE 0

\* s[from..] for a 0-based `from`
SliceFrom(s, from) == SubSeq(s, from + 1, Len(s))

\* The last n elements of s.
LastN(s, n) == SubSeq(s, Len(s) - n + 1, Len(s))

\* <[T]>::split_at_checked: None when mid > len.
SplitAtCheckedOffByOne(s, mid) ==
    IF mid >= Len(s)
    THEN [some |-> FALSE, head |-> <<>>, tail |-> <<>>]
    ELSE [some |-> TRUE, head |-> SubSeq(s, 1, mid), tail |-> SubSeq(s, mid + 1, Len(s))]

SplitAtChecked(s, mid) ==
    IF mid > Len(s)
    THEN [some |-> FALSE, head |-> <<>>, tail |-> <<>>]
    ELSE [some |-> TRUE, head |-> SubSeq(s, 1, mid), tail |-> SubSeq(s, mid + 1, Len(s))]

----------------------------------------------------------------------------
\* LazyArray.

\* Array::lazy(capacity): `capacity` uninitialized slots.
ArrayLazy(capacity) == [i \in 0..(capacity - 1) |-> Uninit]

\* LazyArray::len
ArrayLen(a) == Cardinality(DOMAIN a)

\* LazyArray::is_empty
ArrayIsEmpty(a) == ArrayLen(a) = 0

\* self[index..index + n] is in bounds (it panics otherwise).
RangeInBounds(a, index, n) == n >= 0 /\ index + n <= ArrayLen(a)

\* The raw content of slots [index, index + n).
Slots(a, index, n) == [j \in 1..n |-> a[index + j - 1]]

\* LazyArray::assume_init: the slices the call can return; none when it
\* panics. A slot that was never written reads as an arbitrary value.
assume_init(a, index, n) ==
    IF ~RangeInBounds(a, index, n) THEN {}
    ELSE {s \in [1..n -> T] :
            \A j \in 1..n : a[index + j - 1] # Uninit => s[j] = a[index + j - 1]}

\* LazyArray::copy_from_slice: the bounds check precedes the copy.
lazy_copy_from_slice(a, index, src) ==
    IF ~RangeInBounds(a, index, Len(src))
    THEN [panicked |-> TRUE, array |-> a]
    ELSE [panicked |-> FALSE,
          array |-> [i \in DOMAIN a |->
                        IF index <= i /\ i < index + Len(src)
                        THEN src[i - index + 1] ELSE a[i]]]

\* The slots of `a` that hold a live value.
Live(a) == {i \in DOMAIN a : a[i] # Uninit}

\* The outcome of a raw-array call that panicked on its bounds check.
LazyPanic(a) ==
    [panicked |-> TRUE, array |-> a, ret |-> <<>>, torn |-> <<>>, made |-> 0, ub |-> FALSE]

\* drop_in_place of the slots [index, index + n), one after the other. A
\* Copy type has no teardown; a torn down slot holds no live value.
DropInPlace(a, index, n, needs_drop) ==
    IF needs_drop
    THEN [array |-> [i \in DOMAIN a |->
                        IF index <= i /\ i < index + n THEN Uninit ELSE a[i]],
          torn |-> [j \in 1..n |-> index + j - 1],
          ub |-> \E i \in index..(index + n - 1) : a[i] = Uninit]
    ELSE [array |-> a, torn |-> <<>>, ub |-> FALSE]

\* LazyArray::assume_init_mut: the views the call can return; none when it
\* panics.
assume_init_mut(a, index, n) == assume_init(a, index, n)

\* LazyArray::assume_init_drop
assume_init_drop_nothing(a, index, n, needs_drop) ==
    IF assume_init_mut(a, index, n) = {} THEN LazyPanic(a)
    ELSE [panicked |-> FALSE, array |-> a, ret |-> <<>>, torn |-> <<>>,
          made |-> 0, ub |-> FALSE]

assume_init_drop(a, index, n, needs_drop) ==
    IF assume_init_mut(a, index, n) = {} THEN LazyPanic(a)
    ELSE LET d == DropInPlace(a, index, n, needs_drop)
         IN  [panicked |-> FALSE, array |-> d.array, ret |-> <<>>, torn |-> d.torn,
              made |-> 0, ub |-> d.ub]

\* LazyArray::write_from_slice: the range is sliced (and checked) before
\* the loop; each slot gets a clone of its source element, with no
\* teardown of what the slot held.
write_from_slice_at_zero(a, index, src) ==
    IF ~RangeInBounds(a, index, Len(src)) THEN LazyPanic(a)
    ELSE LET written == [i \in DOMAIN a |->
                            IF i < Len(src) THEN src[i + 1] ELSE a[i]]
         IN  [panicked |-> FALSE, array |-> written,
              ret |-> Slots(written, index, Len(src)),
              torn |-> <<>>, made |-> Len(src), ub |-> FALSE]

write_from_slice_checked_per_slot(a, index, src) ==
    LET fit == Min(Len(src), SaturatingSub(ArrayLen(a), index))
        written == [i \in DOMAIN a |->
                       IF index <= i /\ i < index + fit
                       THEN src[i - index + 1] ELSE a[i]]
    IN  [panicked |-> ~RangeInBounds(a, index, Len(src)), array |-> written,
         ret |-> IF RangeInBounds(a, index, Len(src))
                 THEN Slots(written, index, Len(src)) ELSE <<>>,
         torn |-> <<>>, made |-> fit, ub |-> FALSE]

write_from_slice(a, index, src) ==
    IF ~RangeInBounds(a, index, Len(src)) THEN LazyPanic(a)
    ELSE LET written == [i \in DOMAIN a |->
                            IF index <= i /\ i < index + Len(src)
                            THEN src[i - index + 1] ELSE a[i]]
         IN  [panicked |-> FALSE, array |-> written,
              ret |-> Slots(written, index, Len(src)),
              torn |-> <<>>, made |-> Len(src), ub |-> FALSE]

\* LazyArray::overwrite_from_slice: each slot is torn down, then gets a
\* clone of its source element.
overwrite_from_slice_no_drop(a, index, src, needs_drop) == write_from_slice(a, index, src)

overwrite_from_slice(a, index, src, needs_drop) ==
    IF ~RangeInBounds(a, index, Len(src)) THEN LazyPanic(a)
    ELSE LET d == DropInPlace(a, index, Len(src), needs_drop)
             written == [i \in DOMAIN a |->
                            IF index <= i /\ i < index + Len(src)
                            THEN src[i - index + 1] ELSE d.array[i]]
         IN  [panicked |-> FALSE, array |-> written,
              ret |-> Slots(written, index, Len(src)),
              torn |-> d.torn, made |-> Len(src), ub |-> d.ub]

----------------------------------------------------------------------------
\* RingArray.

\* RingArray::with_capacity
with_capacity(capacity) == [len |-> 0, next |-> 0, array |-> ArrayLazy(capacity)]

\* The guard of copy_from_slice: nothing to do.
BailEarly(a, es) == ArrayIsEmpty(a) \/ es = <<>>

\* Number of leading elements of the batch that are skipped.
StartNoSkip(es, cap) == 0

Start(es, cap) == SaturatingSub(Len(es), cap)

\* None arm: self.next += elems.len()
NoneNextReset(nxt, k) == k

NoneNext(nxt, k) == nxt + k

\* None arm: self.len = min(self.len + elems.len(), cap)
NoneLenNoMin(l, k, cap) == l + k

NoneLenBatchOnly(l, k, cap) == Min(k, cap)

NoneLenFull(l, k, cap) == cap

NoneLen(l, k, cap) == Min(l + k, cap)

\* Some arm: self.next = tail.len()
SomeNextHead(head, tail) == Len(head)

SomeNext(head, tail) == Len(tail)

\* Some arm: self.len = cap
SomeLen(cap) == cap

\* The outcome of a copy_from_slice that panicked after writing `w`.
Panic(self, a, w) ==
    [len |-> self.len, next |-> self.next, array |-> a, writes |-> w, panicked |-> TRUE]

\* None arm of the match: the batch ends before the end of storage.
NoneArmAtZero(self, es) ==
    LET cap == ArrayLen(self.array)
        c == lazy_copy_from_slice(self.array, 0, es)
    IN  IF c.panicked THEN Panic(self, self.array, <<>>)
        ELSE [len |-> NoneLen(self.len, Len(es), cap),
              next |-> NoneNext(self.next, Len(es)),
              array |-> c.array,
              writes |-> [j \in 1..Len(es) |-> <<j - 1, j>>],
              panicked |-> FALSE]

NoneArm(self, es) ==
    LET cap == ArrayLen(self.array)
        c == lazy_copy_from_slice(self.array, self.next, es)
    IN  IF c.panicked THEN Panic(self, self.array, <<>>)
        ELSE [len |-> NoneLen(self.len, Len(es), cap),
              next |-> NoneNext(self.next, Len(es)),
              array |-> c.array,
              writes |-> [j \in 1..Len(es) |-> <<self.next + j - 1, j>>],
              panicked |-> FALSE]

\* Some arm of the match: the batch reaches the end of storage; `start` is
\* the number of elements of the batch before `head`.
SomeArmNoTail(self, head, tail, start) ==
    LET cap == ArrayLen(self.array)
        c1 == lazy_copy_from_slice(self.array, self.next, head)
        w1 == [j \in 1..Len(head) |-> <<self.next + j - 1, start + j>>]
    IN  IF c1.panicked THEN Panic(self, self.array, <<>>)
        ELSE [len |-> SomeLen(cap),
              next |-> SomeNext(head, tail),
              array |-> c1.array,
              writes |-> w1,
              panicked |-> FALSE]

SomeArm(self, head, tail, start) ==
    LET cap == ArrayLen(self.array)
        c1 == lazy_copy_from_slice(self.array, self.next, head)
        w1 == [j \in 1..Len(head) |-> <<self.next + j - 1, start + j>>]
        c2 == lazy_copy_from_slice(c1.array, 0, tail)
        w2 == [j \in 1..Len(tail) |-> <<j - 1, start + Len(head) + j>>]
    IN  IF c1.panicked THEN Panic(self, self.array, <<>>)
        ELSE IF c2.panicked THEN Panic(self, c1.array, w1)
        ELSE [len |-> SomeLen(cap),
              next |-> SomeNext(head, tail),
              array |-> c2.array,
              writes |-> w1 \o w2,
              panicked |-> FALSE]

\* A copy_from_slice without the early return, splitting the batch at
\* min(room, length) and always taking the wrapping arm.
ring_copy_from_slice_always_wrap(self, es) ==
    LET cap == ArrayLen(self.array)
        start == Start(es, cap)
        rest == SliceFrom(es, start)
        mid == Min(cap - self.next, Len(rest))
    IN  SomeArm(self, SubSeq(rest, 1, mid), SubSeq(rest, mid + 1, Len(rest)), start)

\* A copy_from_slice without the early return and without the skip of the
\* elements that will never be visible.
ring_copy_from_slice_naive(self, es) ==
    LET cap == ArrayLen(self.array)
        split == SplitAtChecked(es, cap - self.next)
    IN  IF split.some THEN SomeArm(self, split.head, split.tail, 0)
        ELSE NoneArm(self, es)

\* RingArray::copy_from_slice
ring_copy_from_slice(self, es) ==
    LET cap == ArrayLen(self.array) IN
    IF BailEarly(self.array, es)
    THEN [len |-> self.len, next |-> self.next, array |-> self.array,
          writes |-> <<>>, panicked |-> FALSE]
    ELSE IF cap - self.next < 0
    THEN Panic(self, self.array, <<>>)
    ELSE LET start == Start(es, cap)
             split == SplitAtChecked(SliceFrom(es, start), cap - self.next)
         IN  IF split.some THEN SomeArm(self, split.head, split.tail, start)
             ELSE NoneArm(self, es)

\* RingArray::as_slices: the pairs (head, tail) the call can return; none
\* when it panics.
as_slices_swapped(self) ==
    LET cap == ArrayLen(self.array) IN
    IF self.len < cap
    THEN {<<head, <<>>>> : head \in assume_init(self.array, 0, self.len)}
    ELSE {<<head, tail>> : head \in assume_init(self.array, 0, self.next),
                           tail \in assume_init(self.array, self.next, cap - self.next)}

as_slices_whole_array(self) ==
    LET cap == ArrayLen(self.array) IN
    IF self.len < cap
    THEN {<<head, <<>>>> : head \in assume_init(self.array, 0, cap)}
    ELSE {<<head, tail>> : head \in assume_init(self.array, self.next, cap - self.next),
                           tail \in assume_init(self.array, 0, self.next)}

as_slices(self) ==
    LET cap == ArrayLen(self.array) IN
    IF self.len < cap
    THEN {<<head, <<>>>> : head \in assume_init(self.array, 0, self.len)}
    ELSE {<<head, tail>> : head \in assume_init(self.array, self.next, cap - self.next),
                           tail \in assume_init(self.array, 0, self.next)}

\* What a Chain of the two views yields.
Chain(views) == views[1] \o views[2]

\* RingArray::iter: the sequences the iterator can yield.
iter(self) == {Chain(views) : views \in as_slices(self)}

----------------------------------------------------------------------------
\* The Oracle of the property test: a bounded VecDeque.

\* Oracle::with_capacity
oracle_with_capacity(capacity) == [cap |-> capacity, deque |-> <<>>]

\* Oracle::extend_from_slice
RECURSIVE extend_from_slice(_, _)
extend_from_slice(o, items) ==
    IF o.cap = 0 \/ items = <<>> THEN o
    ELSE LET popped == IF Len(o.deque) = o.cap THEN Tail(o.deque) ELSE o.deque
         IN  extend_from_slice([o EXCEPT !.deque = Append(popped, Head(items))],
                               Tail(items))

----------------------------------------------------------------------------
\* The state machine.

\* The ring buffer as the record `self`.
Self == [len |-> len, next |-> next, array |-> array]

\* The capacity of the ring buffer.
Cap == ArrayLen(array)

NoViews == <<<<>>, <<>>>>

\* No call was made on the raw array yet.
NoCall == [fn |-> "lazy", index |-> 0, n |-> 0, panicked |-> FALSE]

\* The raw array driven on its own is not in use.
LazyIdle ==
    /\ lazy = ArrayLazy(0)
    /\ is_copy = TRUE
    /\ outstanding = 0
    /\ torn = <<>>
    /\ call = NoCall
    /\ disciplined = TRUE
    /\ ub = FALSE

\* The ring buffer is not in use.
RingIdle ==
    /\ array = ArrayLazy(0)
    /\ len = 0
    /\ next = 0
    /\ oracle = oracle_with_capacity(0)
    /\ history = <<>>
    /\ elems = <<>>
    /\ writes = <<>>
    /\ op = "with_capacity"
    /\ again = FALSE
    /\ ret = NoViews
    /\ panicked = FALSE

Init ==
    \E capacity \in 0..MaxCap :
        LET ring == with_capacity(capacity) IN
        /\ array = ring.array
        /\ len = ring.len
        /\ next = ring.next
        /\ oracle = oracle_with_capacity(capacity)
        /\ history = <<>>
        /\ elems = <<>>
        /\ writes = <<>>
        /\ op = "with_capacity"
        /\ again = FALSE
        /\ ret = NoViews
        /\ panicked = FALSE
        /\ LazyIdle

\* One iteration of the test loop: ring.copy_from_slice(items) and
\* oracle.extend_from_slice(items). The views of an earlier as_slices or
\* iter cannot outlive the mutable borrow.
CopyFromSlice ==
    /\ ~panicked
    /\ \E es \in Batches :
        /\ Len(history) + Len(es) <= MaxTotal
        /\ LET r == ring_copy_from_slice(Self, es) IN
            /\ array' = r.array
            /\ len' = r.len
            /\ next' = r.next
            /\ writes' = r.writes
            /\ panicked' = r.panicked
            /\ oracle' = IF r.panicked THEN oracle ELSE extend_from_slice(oracle, es)
            /\ history' = IF r.panicked THEN history ELSE history \o es
        /\ elems' = es
        /\ op' = "copy_from_slice"
        /\ again' = FALSE
        /\ ret' = NoViews
        /\ UNCHANGED lazyvars

\* A call of as_slices.
AsSlices ==
    /\ ~panicked
    /\ op' = "as_slices"
    /\ again' = (op \in {"as_slices", "iter"})
    /\ IF as_slices(Self) = {}
       THEN panicked' = TRUE /\ ret' = NoViews
       ELSE panicked' = FALSE /\ ret' \in as_slices(Self)
    /\ UNCHANGED <<array, len, next, oracle, history, elems, writes>>
    /\ UNCHANGED lazyvars

\* A call of iter: the iterator chains the two views of as_slices.
Iter ==
    /\ ~panicked
    /\ op' = "iter"
    /\ again' = (op \in {"as_slices", "iter"})
    /\ IF as_slices(Self) = {}
       THEN panicked' = TRUE /\ ret' = NoViews
       ELSE panicked' = FALSE /\ ret' \in as_slices(Self)
    /\ UNCHANGED <<array, len, next, oracle, history, elems, writes>>
    /\ UNCHANGED lazyvars

Next == CopyFromSlice \/ AsSlices \/ Iter

Spec == Init /\ [][Next]_vars

----------------------------------------------------------------------------
\* The raw array driven directly: every call with every index and length,
\* in and out of bounds, on slots with and without a live value.

\* Array::lazy(capacity), for an element type that is Copy or has teardown.
InitLazy ==
    /\ RingIdle
    /\ \E capacity \in 0..MaxLazyCap : lazy = ArrayLazy(capacity)
    /\ is_copy \in BOOLEAN
    /\ outstanding = 0
    /\ torn = <<>>
    /\ call = NoCall
    /\ disciplined = TRUE
    /\ ub = FALSE

\* The ranges (index, n) a caller can pass, in and out of bounds.
Ranges ==
    {rg \in (0..(ArrayLen(lazy) + MaxOver)) \X (0..(ArrayLen(lazy) + MaxOver)) :
        rg[1] + rg[2] <= ArrayLen(lazy) + MaxOver}

\* The source slices a caller can pass for a write at `index`.
Sources(index) ==
    UNION {[1..n -> T] : n \in 0..Min(MaxBatch, ArrayLen(lazy) + MaxOver - index)}

\* The effect of a call with outcome r; `breaks` says that the call hit a
\* live slot without teardown or tore down a slot without a live value.
\* Values of a Copy type own nothing and are not counted. A teardown of a
\* slot without a live value is undefined behaviour: the call may have its
\* nominal effect or the process may die before any; nothing runs after it,
\* nor after a panic.
LazyCall(fn, index, n, r, breaks) ==
    /\ ~ub
    /\ ~call.panicked
    /\ is_copy \/ outstanding + r.made - Len(r.torn) \in 0..MaxOutstanding
    /\ \E died \in (IF r.ub THEN BOOLEAN ELSE {FALSE}) :
        /\ lazy' = IF died THEN lazy ELSE r.array
        /\ torn' = IF died THEN <<>> ELSE r.torn
        /\ outstanding' = IF died \/ is_copy THEN outstanding
                          ELSE outstanding + r.made - Len(r.torn)
    /\ call' = [fn |-> fn, index |-> index, n |-> n, panicked |-> r.panicked]
    /\ ub' = r.ub
    /\ disciplined' = (disciplined /\ ~breaks)
    /\ UNCHANGED is_copy
    /\ UNCHANGED ringvars

\* The outcome of assume_init or assume_init_mut, given the views the call
\* can return.
ReadOutcome(a, views) ==
    IF views = {} THEN LazyPanic(a)
    ELSE [panicked |-> FALSE, array |-> a, ret |-> CHOOSE view \in views : TRUE,
          torn |-> <<>>, made |-> 0, ub |-> FALSE]

LazyAssumeInit ==
    \E rg \in Ranges :
        LazyCall("assume_init", rg[1], rg[2],
                 ReadOutcome(lazy, assume_init(lazy, rg[1], rg[2])), FALSE)

LazyAssumeInitMut ==
    \E rg \in Ranges :
        LazyCall("assume_init_mut", rg[1], rg[2],
                 ReadOutcome(lazy, assume_init_mut(lazy, rg[1], rg[2])), FALSE)

LazyAssumeInitDrop ==
    \E rg \in Ranges :
        LazyCall("assume_init_drop", rg[1], rg[2],
                 assume_init_drop(lazy, rg[1], rg[2], ~is_copy),
                 RangeInBounds(lazy, rg[1], rg[2])
                    /\ \E i \in rg[1]..(rg[1] + rg[2] - 1) : i \notin Live(lazy))

LazyWriteFromSlice ==
    \E index \in 0..(ArrayLen(lazy) + MaxOver) : \E src \in Sources(index) :
        LazyCall("write_from_slice", index, Len(src),
                 write_from_slice(lazy, index, src),
                 RangeInBounds(lazy, index, Len(src))
                    /\ \E i \in index..(index + Len(src) - 1) : i \in Live(lazy))

LazyOverwriteFromSlice ==
    \E index \in 0..(ArrayLen(lazy) + MaxOver) : \E src \in Sources(index) :
        LazyCall("overwrite_from_slice", index, Len(src),
                 overwrite_from_slice(lazy, index, src, ~is_copy),
                 RangeInBounds(lazy, index, Len(src))
                    /\ \E i \in index..(index + Len(src) - 1) : i \notin Live(lazy))

\* LazyArray::copy_from_slice with the view it returns.
copy_from_slice(a, index, src) ==
    LET c == lazy_copy_from_slice(a, index, src) IN
    IF c.panicked THEN LazyPanic(a)
    ELSE [panicked |-> FALSE, array |-> c.array,
          ret |-> Slots(c.array, index, Len(src)),
          torn |-> <<>>, made |-> Len(src), ub |-> FALSE]

\* LazyArray::copy_from_slice exists for Copy types only.
LazyCopyFromSlice ==
    /\ is_copy
    /\ \E index \in 0..(ArrayLen(lazy) + MaxOver) : \E src \in Sources(index) :
        LazyCall("copy_from_slice", index, Len(src),
                 copy_from_slice(lazy, index, src), FALSE)

NextLazy ==
    \/ LazyAssumeInit
    \/ LazyAssumeInitMut
    \/ LazyAssumeInitDrop
    \/ LazyWriteFromSlice
    \/ LazyOverwriteFromSlice
    \/ LazyCopyFromSlice

SpecLazy == InitLazy /\ [][NextLazy]_vars

----------------------------------------------------------------------------
\* Properties.

\* C1: after every copy_from_slice, for every capacity and every sequence
\* of batches, what iter yields is exactly the content of the reference
\* bounded deque fed with the same batches (the assertion of test_ring).
C1_RingEqualsOracle ==
    /\ ~panicked
    /\ iter(Self) = {oracle.deque}

\* C1 witness: a batch was appended to a buffer that already held elements
\* and some of them were evicted.
C1_Witness ==
    /\ op = "copy_from_slice"
    /\ Cap > 1
    /\ elems # <<>>
    /\ Len(history) > Len(elems)
    /\ Len(history) > Cap
    /\ next > 0
    /\ iter(Self) = {oracle.deque}

\* C2: after a copy_from_slice of a batch longer than the capacity
\* (capacity > 0), no slot was written with one of the elements before the
\* last `capacity` of the batch, and the iteration order is exactly the
\* last `capacity` elements of the batch.
C2_LongBatchTruncated ==
    (Cap > 0 /\ Len(elems) > Cap) =>
        /\ ~panicked
        /\ \A i \in 1..Len(writes) : writes[i][2] > Len(elems) - Cap
        /\ Len(writes) = Cap
        /\ iter(Self) = {LastN(elems, Cap)}

\* C2 witness: a batch longer than the capacity was appended at a cursor in
\* the middle of storage.
C2_Witness ==
    /\ op = "copy_from_slice"
    /\ Cap > 1
    /\ Len(elems) > Cap
    /\ next > 0
    /\ Len(writes) = Cap
    /\ iter(Self) = {LastN(elems, Cap)}

\* C3: the logical length is always between 0 and the capacity.
C3_LenWithinCapacity == 0 <= len /\ len <= Cap

\* C3 witness: a full buffer received a further, non-wrapping append.
C3_Witness ==
    /\ op = "copy_from_slice"
    /\ elems # <<>>
    /\ Len(history) - Len(elems) >= Cap
    /\ Cap > 1
    /\ next > 0
    /\ writes[1][1] + Len(elems) = next
    /\ len = Cap

\* C4 as stated: the write cursor satisfies 0 <= next < capacity for every
\* legal capacity, capacity 0 included.
C4_NextBelowCapacity == 0 <= next /\ next < Cap

\* C4 amended: 0 <= next < capacity when capacity > 0, and next = 0 when
\* capacity = 0.
C4_NextBelowPositiveCapacity ==
    /\ 0 <= next
    /\ Cap > 0 => next < Cap
    /\ Cap = 0 => next = 0

\* C4 witness: an append filled storage exactly to its end and the cursor
\* went back to slot 0 instead of reaching the capacity.
C4_Witness ==
    /\ op = "copy_from_slice"
    /\ Cap > 1
    /\ elems # <<>>
    /\ Len(elems) < Cap
    /\ Len(history) > Len(elems)
    /\ next = 0
    /\ len = Cap

\* C5: whenever length < capacity, next = length, slots [0, length) hold
\* every element appended so far in insertion order, and as_slices returns
\* the view over [0, length) and an empty second view.
C5_NotWrapped ==
    len < Cap =>
        /\ next = len
        /\ len = Len(history)
        /\ Slots(array, 0, len) = history
        /\ as_slices(Self) = {<<Slots(array, 0, len), <<>>>>}

\* C5 witness: two non-empty batches were appended and the buffer is not
\* full.
C5_Witness ==
    /\ op = "copy_from_slice"
    /\ elems # <<>>
    /\ Len(history) > Len(elems)
    /\ len < Cap
    /\ as_slices(Self) = {<<history, <<>>>>}

\* C6: whenever length = capacity, slots [next, capacity) followed by slots
\* [0, next) hold the most recently appended `capacity` elements in
\* insertion order, and as_slices returns exactly these two ranges.
C6_Wrapped ==
    len = Cap =>
        /\ Len(history) >= Cap
        /\ Slots(array, next, Cap - next) \o Slots(array, 0, next) = LastN(history, Cap)
        /\ as_slices(Self) = {<<Slots(array, next, Cap - next), Slots(array, 0, next)>>}

\* C6 witness: a full buffer whose content is split over the end of
\* storage, after elements were evicted.
C6_Witness ==
    /\ op = "copy_from_slice"
    /\ len = Cap
    /\ Cap > 1
    /\ next > 0
    /\ Len(history) > Cap
    /\ as_slices(Self) = {<<SubSeq(LastN(history, Cap), 1, Cap - next),
                            LastN(history, next)>>}

\* C7: a buffer of capacity 0 is always empty: length = 0, next = 0, iter
\* yields nothing, and no append panics.
C7_ZeroCapacityEmpty ==
    Cap = 0 =>
        /\ len = 0
        /\ next = 0
        /\ writes = <<>>
        /\ iter(Self) = {<<>>}
        /\ ~panicked

\* C7 witness: a non-empty batch was appended to a buffer of capacity 0.
C7_Witness ==
    /\ Cap = 0
    /\ op = "copy_from_slice"
    /\ elems # <<>>
    /\ Len(history) > Len(elems)
    /\ len = 0

\* C8: a copy_from_slice of an empty batch leaves length, next and every
\* slot unchanged, so the iteration order is the same before and after.
C8_EmptyBatchNoOp ==
    [][(op' = "copy_from_slice" /\ elems' = <<>>) =>
            /\ UNCHANGED <<len, next, array>>
            /\ ~panicked'
            /\ writes' = <<>>
            /\ iter(Self)' = iter(Self)]_vars

\* C8 witness: an empty batch was appended to a full buffer whose cursor is
\* in the middle of storage.
C8_Witness ==
    /\ op = "copy_from_slice"
    /\ elems = <<>>
    /\ Cap > 1
    /\ len = Cap
    /\ next > 0

\* C9: once length = capacity it stays so under every further operation,
\* and the length never decreases.
C9_StaysWrapped ==
    [][/\ len = Cap => len' = Cap'
       /\ len' >= len]_vars

\* C9 witness: a buffer that was already full received a non-empty batch
\* and is still full.
C9_Witness ==
    /\ op = "copy_from_slice"
    /\ Cap > 0
    /\ elems # <<>>
    /\ Len(history) - Len(elems) > Cap
    /\ len = Cap

\* C10: as_slices and iter leave length, next and all slots unchanged, and
\* calls with no append in between return the same ordered content.
C10_ObserversPure ==
    [][/\ op' \in {"as_slices", "iter"} =>
            /\ UNCHANGED <<len, next, array>>
            /\ ~panicked'
       /\ (op \in {"as_slices", "iter"} /\ op' \in {"as_slices", "iter"}) =>
            Chain(ret') = Chain(ret)]_vars

\* C10 witness: iter was called right after another as_slices or iter on a
\* partly filled buffer and yielded its content.
C10_Witness ==
    /\ op = "iter"
    /\ again
    /\ Cap > 1
    /\ 0 < len
    /\ len < Cap
    /\ Chain(ret) = history

----------------------------------------------------------------------------
\* Properties of the two arms of copy_from_slice. In a step of
\* copy_from_slice the unprimed variables are the buffer before the call,
\* elems' is the batch and the primed variables the buffer after it.

\* The batch after the skip of the elements that will never be visible.
Truncated(es, cap) == LastN(es, Min(Len(es), cap))

\* The slots written by the most recent copy_from_slice.
WrittenSlots(w) == {w[i][1] : i \in 1..Len(w)}

\* C15: when capacity > 0 and the non-empty batch, truncated to its last
\* `capacity` elements, is shorter than room = capacity - next,
\* copy_from_slice writes the batch into slots [next, next + batch length),
\* leaves every other slot unchanged, advances next by the batch length and
\* sets length = min(length + batch length, capacity).
C15_NonWrappingAppend ==
    [][(/\ op' = "copy_from_slice"
        /\ Cap > 0
        /\ elems' # <<>>
        /\ Len(Truncated(elems', Cap)) < Cap - next) =>
            LET batch == Truncated(elems', Cap)
                k == Len(batch)
            IN  /\ ~panicked'
                /\ \A i \in DOMAIN array :
                       array'[i] = IF next <= i /\ i < next + k
                                   THEN batch[i - next + 1] ELSE array[i]
                /\ WrittenSlots(writes') = next..(next + k - 1)
                /\ next' = next + k
                /\ len' = Min(len + k, Cap)]_vars

\* C15 witness: a full buffer whose cursor was in the middle of storage
\* received a batch that ends before the end of storage.
C15_Witness ==
    /\ op = "copy_from_slice"
    /\ Cap > 2
    /\ elems # <<>>
    /\ len = Cap
    /\ writes[1][1] > 0
    /\ next = writes[1][1] + Len(elems)
    /\ next < Cap
    /\ Slots(array, writes[1][1], Len(elems)) = elems

\* C16: when capacity > 0 and the non-empty (truncated) batch is not
\* shorter than room = capacity - next, copy_from_slice writes its first
\* `room` elements into slots [next, capacity) and the remainder into the
\* slots from 0 on, sets next to the length of the remainder and length to
\* the capacity.
C16_WrappingAppend ==
    [][(/\ op' = "copy_from_slice"
        /\ Cap > 0
        /\ elems' # <<>>
        /\ Len(Truncated(elems', Cap)) >= Cap - next) =>
            LET batch == Truncated(elems', Cap)
                room == Cap - next
                rest == Len(batch) - room
            IN  /\ ~panicked'
                /\ \A i \in DOMAIN array :
                       array'[i] = IF next <= i THEN batch[i - next + 1]
                                   ELSE IF i < rest THEN batch[room + i + 1]
                                   ELSE array[i]
                /\ WrittenSlots(writes') = (next..(Cap - 1)) \cup (0..(rest - 1))
                /\ next' = rest
                /\ len' = Cap]_vars

\* C16 witness: a batch straddled the end of storage: its head went to the
\* slots up to the end and a non-empty remainder to the slots from 0 on.
C16_Witness ==
    /\ op = "copy_from_slice"
    /\ Cap > 1
    /\ Len(elems) > 1
    /\ Len(elems) <= Cap
    /\ next > 0
    /\ next < Len(elems)
    /\ len = Cap
    /\ writes[1][1] + (Len(elems) - next) = Cap
    /\ Slots(array, 0, next) = LastN(elems, next)

\* C17: every slot that as_slices (and so iter) reinterprets as
\* initialized was written by an earlier append: slots [0, length) when
\* length < capacity, all slots when length = capacity.
C17_ReadsOnlyWrittenSlots ==
    /\ len < Cap => \A i \in 0..(len - 1) : array[i] # Uninit
    /\ len >= Cap =>
        /\ \A i \in next..(Cap - 1) : array[i] # Uninit
        /\ \A i \in 0..(next - 1) : array[i] # Uninit

\* C17 witness: as_slices read a partly filled buffer that still has a slot
\* never written.
C17_Witness ==
    /\ op = "as_slices"
    /\ 0 < len
    /\ len < Cap
    /\ array[len] = Uninit
    /\ ret = <<Slots(array, 0, len), <<>>>>

\* A batch of n elements; the bounds of the raw copies depend on the length
\* of the batch only.
BatchOfLen(n) == [j \in 1..n |-> 1]

\* C18: no ring operation runs into a bounds panic of the raw array: no
\* call made so far panicked, every slot written lies within the array,
\* and in every reachable state capacity - next does not underflow,
\* as_slices returns, and copy_from_slice of a batch of every length
\* returns.
C18_NoBoundsPanic ==
    /\ ~panicked
    /\ WrittenSlots(writes) \subseteq DOMAIN array
    /\ Cap - next >= 0
    /\ as_slices(Self) # {}
    /\ \A n \in 0..MaxBatch : ~ring_copy_from_slice(Self, BatchOfLen(n)).panicked

\* C18 witness: a batch longer than the capacity was appended at a cursor in
\* the middle of storage, both raw copies were issued and none panicked.
C18_Witness ==
    /\ op = "copy_from_slice"
    /\ ~panicked
    /\ Cap > 1
    /\ Len(elems) > Cap
    /\ next > 0
    /\ WrittenSlots(writes) = 0..(Cap - 1)

\* C19: for every append on a buffer of capacity > 0 the new length is
\* min(old length + batch length, capacity); whenever the wrapping arm is
\* taken, old length + batch length >= capacity.
C19_LenIsMin ==
    [][(op' = "copy_from_slice" /\ Cap > 0) =>
            /\ len' = Min(len + Len(elems'), Cap)
            /\ (elems' # <<>> /\ Len(Truncated(elems', Cap)) >= Cap - next) =>
                    len + Len(elems') >= Cap]_vars

\* C19 witness: the wrapping arm was taken on a buffer that was not full
\* and the batch was no longer than the capacity.
C19_Witness ==
    /\ op = "copy_from_slice"
    /\ Cap > 1
    /\ elems # <<>>
    /\ Len(elems) < Cap
    /\ Len(history) > Len(elems)
    /\ Len(history) < 2 * Cap
    /\ Len(history) >= Cap
    /\ len = Cap
    /\ next = Len(history) - Cap

\* C20: for every append of a batch of length k on a buffer of capacity
\* > 0, with m = min(k, capacity): the slots written are exactly the m
\* slots of the cyclic interval starting at the old next, none is written
\* twice, every other slot is unchanged, and the new next is
\* (old next + m) mod capacity.
C20_CyclicInterval ==
    [][(op' = "copy_from_slice" /\ Cap > 0) =>
            LET m == Min(Len(elems'), Cap)
                interval == {(next + j) % Cap : j \in 0..(m - 1)}
            IN  /\ WrittenSlots(writes') = interval
                /\ Len(writes') = m
                /\ \A i \in DOMAIN array \ interval : array'[i] = array[i]
                /\ next' = (next + m) % Cap]_vars

\* C20 witness: a batch was written over the end of storage without
\* covering every slot.
C20_Witness ==
    /\ op = "copy_from_slice"
    /\ Cap > 2
    /\ Len(writes) = 2
    /\ writes[1][1] = Cap - 1
    /\ writes[2][1] = 0
    /\ next = 1

----------------------------------------------------------------------------
\* Properties of the raw array, under SpecLazy.

\* The slots of the range [index, index + n), in order.
RangeSeq(index, n) == [j \in 1..n |-> index + j - 1]

\* The range of the most recent call.
CallRange == call.index..(call.index + call.n - 1)

\* C11: for every index and source slice with index + length <= capacity,
\* in every reachable state of the array, write_from_slice and
\* copy_from_slice return a view equal to the source slice, and a following
\* assume_init(index, length) yields exactly the source slice.
C11_RawRoundTrip ==
    /\ \A index \in 0..ArrayLen(lazy) : \A src \in Sources(index) :
        RangeInBounds(lazy, index, Len(src)) =>
            LET w == write_from_slice(lazy, index, src)
                c == copy_from_slice(lazy, index, src)
            IN  /\ ~w.panicked
                /\ w.ret = src
                /\ assume_init(w.array, index, Len(src)) = {src}
                /\ is_copy =>
                    /\ ~c.panicked
                    /\ c.ret = src
                    /\ assume_init(c.array, index, Len(src)) = {src}
    /\ (call.fn \in {"write_from_slice", "copy_from_slice"} /\ ~call.panicked) =>
            CallRange \subseteq Live(lazy)

\* C11 witness: copy_from_slice wrote a slice into the end of an array
\* whose slot 0 holds a different value, and the slice reads back.
C11_Witness ==
    /\ call.fn = "copy_from_slice"
    /\ ~call.panicked
    /\ call.index > 0
    /\ call.n > 0
    /\ call.index + call.n = ArrayLen(lazy)
    /\ lazy[0] # Uninit
    /\ lazy[0] # lazy[call.index]
    /\ assume_init(lazy, call.index, call.n) = {Slots(lazy, call.index, call.n)}

\* C12: every raw-array call (assume_init, assume_init_mut,
\* assume_init_drop, write_from_slice, overwrite_from_slice,
\* copy_from_slice) with index + len > capacity panics, and no slot was
\* written or torn down by it.
C12_OutOfBoundsPanics ==
    [][(call'.fn # "lazy" /\ call'.index + call'.n > ArrayLen(lazy)) =>
            /\ call'.panicked
            /\ lazy' = lazy
            /\ torn' = <<>>
            /\ outstanding' = outstanding
            /\ ~ub']_vars

\* C12 witness: overwrite_from_slice was called on a range that starts at a
\* live slot and ends past the end of the array, and panicked.
C12_Witness ==
    /\ call.fn = "overwrite_from_slice"
    /\ call.panicked
    /\ ~is_copy
    /\ call.index \in Live(lazy)
    /\ call.index + call.n > ArrayLen(lazy)
    /\ torn = <<>>

\* C13: in every reachable state, when every slot of [index, index + len)
\* holds a live value, overwrite_from_slice(index, new slice) tears down
\* each slot of the range exactly once (for a type with teardown), leaves
\* every slot outside the range as it was, and a following
\* assume_init(index, len) yields exactly the new slice.
C13_OverwriteReplaces ==
    \A index \in 0..ArrayLen(lazy) : \A src \in Sources(index) :
        (/\ RangeInBounds(lazy, index, Len(src))
         /\ (index..(index + Len(src) - 1)) \subseteq Live(lazy)) =>
            LET o == overwrite_from_slice(lazy, index, src, ~is_copy) IN
            /\ ~o.panicked
            /\ ~o.ub
            /\ ~is_copy => o.torn = RangeSeq(index, Len(src))
            /\ \A i \in DOMAIN lazy \ (index..(index + Len(src) - 1)) :
                   o.array[i] = lazy[i]
            /\ o.ret = src
            /\ assume_init(o.array, index, Len(src)) = {src}

\* C13 witness: overwrite_from_slice replaced a live value next to another
\* live value that it left alone.
C13_Witness ==
    /\ call.fn = "overwrite_from_slice"
    /\ ~call.panicked
    /\ ~is_copy
    /\ disciplined
    /\ call.n > 0
    /\ call.n < ArrayLen(lazy)
    /\ torn = RangeSeq(call.index, call.n)
    /\ Live(lazy) = DOMAIN lazy

\* C14: write_from_slice tears nothing down (what a slot held is leaked);
\* assume_init_drop(index, len) tears down each slot of the range exactly
\* once and no slot outside it; and as long as write_from_slice hit only
\* slots without a live value and overwrite / drop only slots with one,
\* values created minus values torn down is the number of live slots.
C14_LifecycleAccounting ==
    /\ []((~is_copy /\ disciplined) => outstanding = Cardinality(Live(lazy)))
    /\ [][/\ call'.fn = "write_from_slice" =>
                /\ torn' = <<>>
                /\ (~is_copy /\ ~call'.panicked) => outstanding' = outstanding + call'.n
          /\ (call'.fn = "assume_init_drop" /\ ~call'.panicked /\ ~is_copy /\ ~ub') =>
                /\ torn' = RangeSeq(call'.index, call'.n)
                /\ outstanding' = outstanding - call'.n
                /\ Live(lazy') = Live(lazy) \ (call'.index..(call'.index + call'.n - 1))
                /\ \A i \in DOMAIN lazy \ (call'.index..(call'.index + call'.n - 1)) :
                       lazy'[i] = lazy[i]]_vars

\* C14 witness: assume_init_drop tore down one live slot of an array that
\* keeps another live value, with every call so far within the discipline.
C14_Witness ==
    /\ call.fn = "assume_init_drop"
    /\ ~call.panicked
    /\ ~is_copy
    /\ disciplined
    /\ torn = <<call.index>>
    /\ Live(lazy) # {}
    /\ outstanding = Cardinality(Live(lazy))

====
